---- MODULE Spec2Model ----
(***************************************************************************)
(* Stock analysis dashboard: fetch_price_data, compute_macd_kdj and the    *)
(* signal block of main(), modelled from the Streamlit script.             *)
(*                                                                         *)
(* Numbers.  The script computes in IEEE-754 doubles.  A value is modelled *)
(* as a pair <<num, den>>: den > 0 is the exact rational num/den in lowest *)
(* terms, <<1,0>> is +inf, <<-1,0>> is -inf and <<0,0>> is NaN (the        *)
(* missing-value marker of pandas/numpy).  Rounding is not modelled;       *)
(* division by zero, inf-inf and the NaN comparison rules are.             *)
(***************************************************************************)
EXTENDS Integers, Sequences, FiniteSets

VARIABLES
    pc,            \* position of the script run
    AK_AVAILABLE,  \* module-level flag set by the guarded import
    hash_salt,     \* per-process salt of Python's str hash
    today,         \* dt.datetime.today() of the host
    stock_code,    \* st.text_input value
    price_df,      \* the frame held by main(): columns as sequences
    source,        \* which return of fetch_price_data produced price_df
    rsv_local,     \* the local rsv of compute_macd_kdj (not a column)
    signals,       \* the list built by the signal block
    notice,        \* what the run last showed (st.warning/success/info)
    first_synth    \* history: first synthetic prices returned per ticker

vars == <<pc, AK_AVAILABLE, hash_salt, today, stock_code, price_df, source,
          rsv_local, signals, notice, first_synth>>

----------------------------------------------------------------------------
(* IEEE-style arithmetic on <<num, den>> *)

NaN == <<0, 0>>
PosInf == <<1, 0>>
NegInf == <<-1, 0>>

Abs(a) == IF a < 0 THEN -a ELSE a

Sgn(a) == IF a > 0 THEN 1 ELSE IF a < 0 THEN -1 ELSE 0

RECURSIVE GCD(_, _)
GCD(a, b) == IF b = 0 THEN a ELSE GCD(b, a % b)

\* the rational a/b, b # 0, in lowest terms with a positive denominator
Rat(a, b) ==
    LET g == GCD(Abs(a), Abs(b))
        s == Sgn(b)
    IN <<(s * a) \div g, (s * b) \div g>>

Num(a) == <<a, 1>>

isnan(x) == x = NaN

IsInf(x) == x[2] = 0 /\ x[1] # 0

IsFinite(x) == x[2] > 0

Neg(x) == <<-x[1], x[2]>>

Add(x, y) ==
    IF isnan(x) \/ isnan(y) THEN NaN
    ELSE IF IsInf(x) THEN (IF IsInf(y) /\ y # x THEN NaN ELSE x)
    ELSE IF IsInf(y) THEN y
    ELSE LET g == GCD(x[2], y[2])
         IN Rat(x[1] * (y[2] \div g) + y[1] * (x[2] \div g), (x[2] \div g) * y[2])

Sub(x, y) == Add(x, Neg(y))

Mul(x, y) ==
    IF isnan(x) \/ isnan(y) THEN NaN
    ELSE IF IsInf(x) \/ IsInf(y)
         THEN (IF x[1] = 0 \/ y[1] = 0 THEN NaN ELSE <<Sgn(x[1]) * Sgn(y[1]), 0>>)
    ELSE LET g1 == GCD(Abs(x[1]), y[2])
             g2 == GCD(Abs(y[1]), x[2])
         IN Rat((x[1] \div g1) * (y[1] \div g2), (x[2] \div g2) * (y[2] \div g1))

\* float division as numpy performs it: x/0 is +-inf, 0/0 is NaN, no exception
Div(x, y) ==
    IF isnan(x) \/ isnan(y) THEN NaN
    ELSE IF IsInf(y) THEN (IF IsInf(x) THEN NaN ELSE Num(0))
    ELSE IF y[1] = 0 THEN (IF x[1] = 0 THEN NaN ELSE <<Sgn(x[1]), 0>>)
    ELSE IF IsInf(x) THEN <<Sgn(x[1]) * Sgn(y[1]), 0>>
    ELSE Mul(x, Rat(y[2], y[1]))

\* x < y on floats: any comparison with NaN is False
Lt(x, y) ==
    IF isnan(x) \/ isnan(y) THEN FALSE
    ELSE IF IsInf(x) /\ IsInf(y) THEN x[1] < y[1]
    ELSE IF IsInf(x) THEN x[1] < 0
    ELSE IF IsInf(y) THEN y[1] > 0
    ELSE Add(x, Neg(y))[1] < 0

Gt(x, y) == Lt(y, x)

Le(x, y) == ~isnan(x) /\ ~isnan(y) /\ ~Lt(y, x)

MinNum(x, y) == IF Lt(y, x) THEN y ELSE x

MaxNum(x, y) == IF Lt(x, y) THEN y ELSE x

----------------------------------------------------------------------------
(* Frames: a DataFrame is a record of equally long columns.  A column the  *)
(* frame does not have yet is the empty sequence.                          *)

Len0(df) == Len(df.close)

NoColumn == <<>>

Frame(date, high, low, close) ==
    [date |-> date, high |-> high, low |-> low, close |-> close,
     DIF |-> NoColumn, DEA |-> NoColumn, MACD |-> NoColumn,
     K |-> NoColumn, D |-> NoColumn, J |-> NoColumn]

EmptyFrame == Frame(<<>>, <<>>, <<>>, <<>>)

Last(xs) == xs[Len(xs)]

\* a function on 1..k as a sequence value
ToSeq(f) == SubSeq(f, 1, Len(f))

----------------------------------------------------------------------------
(* compute_macd_kdj *)

\* Series.ewm(span=span, adjust=False): alpha = 2 / (span + 1)
ewm_alpha(span) == Rat(2, span + 1)

\* the recurrence y[t] = (1 - alpha) * y[t-1] + alpha * x[t], continuing ys over xs
RECURSIVE ewm_scan(_, _, _)
ewm_scan(ys, xs, alpha) ==
    IF xs = <<>> THEN ys
    ELSE ewm_scan(Append(ys, Add(Mul(Sub(Num(1), alpha), Last(ys)),
                                 Mul(alpha, Head(xs)))),
                  Tail(xs), alpha)

\* an average that starts from 0 instead of from the first observation
ewm_mean_zero_seed(xs, span) ==
    IF xs = <<>> THEN <<>>
    ELSE ewm_scan(<<Mul(ewm_alpha(span), xs[1])>>, Tail(xs), ewm_alpha(span))

\* an average with min_periods = span: the first span-1 entries are missing
ewm_mean_min_periods(xs, span) ==
    IF xs = <<>> THEN <<>>
    ELSE LET ys == ewm_scan(<<xs[1]>>, Tail(xs), ewm_alpha(span))
         IN [i \in 1..Len(xs) |-> IF i < span THEN NaN ELSE ys[i]]

\* .ewm(span, adjust=False).mean(): y[0] = x[0], no warm-up region
ewm_mean(xs, span) ==
    IF xs = <<>> THEN <<>>
    ELSE ewm_scan(<<xs[1]>>, Tail(xs), ewm_alpha(span))

short_ema(df) == ewm_mean(df.close, 12)

long_ema(df) == ewm_mean(df.close, 26)

dif(df) ==
    LET s == short_ema(df)
        l == long_ema(df)
    IN ToSeq([i \in 1..Len0(df) |-> Sub(s[i], l[i])])

\* dea and macd_bar read the series bound to dif and dea on lines 108-109
dea(dif_) == ewm_mean(dif_, 9)

macd_bar(dif_, dea_) ==
    [i \in 1..Len(dif_) |-> Mul(Num(2), Sub(dif_[i], dea_[i]))]

n == 9

\* a window that reports a value as soon as it holds one row (min_periods=1)
window_ready_partial(i, w) == i >= 1

\* .rolling(w): the window ending at row i (1-based) reports a value only
\* when it holds w rows
window_ready(i, w) == i >= w

RECURSIVE fold_min(_, _, _)
fold_min(xs, lo, hi) ==
    IF lo = hi THEN xs[lo] ELSE MinNum(xs[lo], fold_min(xs, lo + 1, hi))

RECURSIVE fold_max(_, _, _)
fold_max(xs, lo, hi) ==
    IF lo = hi THEN xs[lo] ELSE MaxNum(xs[lo], fold_max(xs, lo + 1, hi))

WindowStart(i, w) == IF i - w + 1 < 1 THEN 1 ELSE i - w + 1

rolling_min(xs, w) ==
    [i \in 1..Len(xs) |->
        IF window_ready(i, w) THEN fold_min(xs, WindowStart(i, w), i) ELSE NaN]

rolling_max(xs, w) ==
    [i \in 1..Len(xs) |->
        IF window_ready(i, w) THEN fold_max(xs, WindowStart(i, w), i) ELSE NaN]

low_min(df) == rolling_min(df.low, n)

high_max(df) == rolling_max(df.high, n)

rsv(df) ==
    LET lo == low_min(df)
        hi == high_max(df)
    IN ToSeq([i \in 1..Len0(df) |->
                Mul(Div(Sub(df.close[i], lo[i]), Sub(hi[i], lo[i])), Num(100))])

\* a smoothing step that keeps the whole previous value
smooth_unweighted(prev, x) == Add(prev, Mul(Rat(1, 3), x))

\* 2/3 * prev + 1/3 * x
smooth(prev, x) == Add(Mul(Rat(2, 3), prev), Mul(Rat(1, 3), x))

\* one pass of the for loop: acc holds k_list and d_list so far, i is enumerate's index
kd_step(acc, i, r) ==
    IF isnan(r)
    THEN [k_list |-> Append(acc.k_list, NaN), d_list |-> Append(acc.d_list, NaN)]
    ELSE LET reseed == i = 0 \/ isnan(Last(acc.k_list))
             k_prev == IF reseed THEN Num(50) ELSE Last(acc.k_list)
             d_prev == IF reseed THEN Num(50) ELSE Last(acc.d_list)
             k_now == smooth(k_prev, r)
             d_now == smooth(d_prev, k_now)
         IN [k_list |-> Append(acc.k_list, k_now), d_list |-> Append(acc.d_list, d_now)]

RECURSIVE kd_loop(_)
kd_loop(rs) ==
    IF rs = <<>> THEN [k_list |-> <<>>, d_list |-> <<>>]
    ELSE kd_step(kd_loop(SubSeq(rs, 1, Len(rs) - 1)), Len(rs) - 1, Last(rs))

j_list(k_list, d_list) ==
    [i \in 1..Len(k_list) |->
        IF ~isnan(k_list[i])
        THEN Sub(Mul(Num(3), k_list[i]), Mul(Num(2), d_list[i]))
        ELSE NaN]

\* the body of compute_macd_kdj: its local rsv and the frame it returns
compute_locals(df) ==
    LET dif_ == dif(df)
        dea_ == dea(dif_)
        rsv_ == rsv(df)
        kd == kd_loop(rsv_)
    IN [rsv |-> rsv_,
        df |-> [date |-> df.date, high |-> df.high, low |-> df.low,
                close |-> df.close,
                DIF |-> dif_, DEA |-> dea_, MACD |-> macd_bar(dif_, dea_),
                K |-> kd.k_list, D |-> kd.d_list,
                J |-> j_list(kd.k_list, kd.d_list)]]

compute_macd_kdj(df) == compute_locals(df).df


----------------------------------------------------------------------------
(* the signal block of main() *)

BULLISH == "MACD golden cross / bullish momentum"
BEARISH == "MACD death cross / bearish momentum"
OVERSOLD == "KDJ oversold"
OVERBOUGHT == "KDJ overbought"
NO_SIGNAL == "no clear signal"

iloc_last(df) ==
    [DIF |-> Last(df.DIF), DEA |-> Last(df.DEA), MACD |-> Last(df.MACD),
     K |-> Last(df.K), D |-> Last(df.D), J |-> Last(df.J)]

\* the MACD branch with "or" in place of "and"
macd_signals_or(row) ==
    IF Gt(row.DIF, row.DEA) \/ Gt(row.MACD, Num(0)) THEN <<BULLISH>>
    ELSE IF Lt(row.DIF, row.DEA) \/ Lt(row.MACD, Num(0)) THEN <<BEARISH>>
    ELSE <<>>

macd_signals(row) ==
    IF Gt(row.DIF, row.DEA) /\ Gt(row.MACD, Num(0)) THEN <<BULLISH>>
    ELSE IF Lt(row.DIF, row.DEA) /\ Lt(row.MACD, Num(0)) THEN <<BEARISH>>
    ELSE <<>>

kdj_signals(row) ==
    IF Lt(row.J, Num(20)) THEN <<OVERSOLD>>
    ELSE IF Gt(row.J, Num(80)) THEN <<OVERBOUGHT>>
    ELSE <<>>

build_signals(row) == macd_signals(row) \o kdj_signals(row)

\* st.success(joined signals) or st.info(no clear signal)
show_signals(sigs) ==
    IF sigs # <<>> THEN [kind |-> "success", text |-> sigs]
    ELSE [kind |-> "info", text |-> <<NO_SIGNAL>>]

----------------------------------------------------------------------------
(* fetch_price_data *)

\* rows of the default call; the script uses days = 250
Days == 2

\* the seed space of np.random.seed; the script uses 2 ** 32
SeedMod == 8

MaxResp == 2
MaxDay == 1

\* tickers are digit strings, kept as sequences of digits; "" is <<>>
Codes == {<<6, 0>>, <<0, 1>>}

Salts == {0, 1}

\* Python's hash() of a str: a keyed hash whose key is drawn when the
\* interpreter starts (PYTHONHASHSEED unset); signed
RECURSIVE py_hash_fold(_, _)
py_hash_fold(h, str) ==
    IF str = <<>> THEN h
    ELSE py_hash_fold((h * 33 + Head(str) + 1) % 64, Tail(str))

py_hash(str, salt) == py_hash_fold(salt * 19 + 7, str) - 32

\* the stream of numpy's global generator after np.random.seed(seed):
\* a fixed function of the seed and of the position in the stream
randn_at(seed, k) == Num(((seed * 5 + 2 * k) % 3) - 1)

rand_at(seed, k) == Rat((seed * 3 + k) % 4, 4)

RECURSIVE cumsum(_)
cumsum(xs) ==
    IF xs = <<>> THEN <<>>
    ELSE LET init == cumsum(SubSeq(xs, 1, Len(xs) - 1))
         IN Append(init, IF init = <<>> THEN Last(xs) ELSE Add(Last(init), Last(xs)))

\* lines 56-61: the fallback frame
synthetic_frame(code, days, salt, now) ==
    LET seed == Abs(py_hash(code, salt)) % SeedMod
        walk == cumsum([i \in 1..days |-> randn_at(seed, i - 1)])
        price == [i \in 1..days |-> Add(walk[i], Num(100))]
    IN Frame([i \in 1..days |-> now - days + i],
             [i \in 1..days |-> Add(price[i], Mul(rand_at(seed, days + i - 1), Num(2)))],
             [i \in 1..days |-> Sub(price[i], Mul(rand_at(seed, 2 * days + i - 1), Num(2)))],
             price)

\* .sort_index(): rows in ascending index order, ties in arrival order
RECURSIVE insert_row(_, _)
insert_row(sorted, r) ==
    IF sorted = <<>> THEN <<r>>
    ELSE IF Last(sorted).idx <= r.idx THEN Append(sorted, r)
    ELSE Append(insert_row(SubSeq(sorted, 1, Len(sorted) - 1), r), Last(sorted))

RECURSIVE sort_index(_)
sort_index(rows) ==
    IF rows = <<>> THEN <<>>
    ELSE insert_row(sort_index(SubSeq(rows, 1, Len(rows) - 1)), Last(rows))

tail(rows, k) ==
    IF Len(rows) <= k THEN rows ELSE SubSeq(rows, Len(rows) - k + 1, Len(rows))

\* the rename mapping of lines 46-51 (the three Chinese headers are written
\* in pinyin: zuigao = high, zuidi = low, shoupan = close)
rename(col) ==
    CASE col = "index" -> "date"
      [] col = "zuigao" -> "high"
      [] col = "zuidi" -> "low"
      [] col = "shoupan" -> "close"
      [] OTHER -> col

\* lines 43-52: what the try block does with the response of ak.stock_zh_a_daily
try_remote(resp, days) ==
    IF resp.kind = "raises" THEN [ok |-> FALSE, df |-> EmptyFrame]
    ELSE IF resp.index_name \in resp.columns THEN [ok |-> FALSE, df |-> EmptyFrame]
    ELSE LET cols == {rename(c) : c \in resp.columns \cup {resp.index_name}}
             rows == tail(sort_index(resp.rows), days)
         IN IF ~({"date", "high", "low", "close"} \subseteq cols)
            THEN [ok |-> FALSE, df |-> EmptyFrame]
            ELSE [ok |-> TRUE,
                  df |-> Frame([i \in 1..Len(rows) |-> rows[i].idx],
                               [i \in 1..Len(rows) |-> Num(rows[i].high)],
                               [i \in 1..Len(rows) |-> Num(rows[i].low)],
                               [i \in 1..Len(rows) |-> Num(rows[i].close)])]

\* fetch_price_data without the except clause: a failure in the try block propagates
fetch_price_data_unguarded(code, days, ak, resp, salt, now) ==
    IF ak /\ try_remote(resp, days).ok
    THEN [raised |-> FALSE, source |-> "remote", df |-> try_remote(resp, days).df]
    ELSE IF ak
    THEN [raised |-> TRUE, source |-> "none", df |-> EmptyFrame]
    ELSE [raised |-> FALSE, source |-> "synthetic",
          df |-> synthetic_frame(code, days, salt, now)]

fetch_price_data(code, days, ak, resp, salt, now) ==
    IF ak /\ try_remote(resp, days).ok
    THEN [raised |-> FALSE, source |-> "remote", df |-> try_remote(resp, days).df]
    ELSE [raised |-> FALSE, source |-> "synthetic",
          df |-> synthetic_frame(code, days, salt, now)]

\* what the remote source may answer
RemoteRow == {[idx |-> 1, high |-> 2, low |-> 0, close |-> 1],
              [idx |-> 2, high |-> 3, low |-> 1, close |-> 2],
              [idx |-> 1, high |-> 4, low |-> 2, close |-> 3]}

RECURSIVE SeqsUpTo(_, _)
SeqsUpTo(S, k) ==
    IF k = 0 THEN {<<>>}
    ELSE LET shorter == SeqsUpTo(S, k - 1)
         IN shorter \cup {Append(q, x) : q \in shorter, x \in S}

ColumnSets == {{"zuigao", "zuidi", "shoupan", "kaipan"},
               {"high", "low", "close", "open"},
               {"zuigao", "zuidi", "kaipan"}}

\* the call raises (no network, unknown symbol, ...), or is never made
NotCalled == [kind |-> "raises", index_name |-> "index", columns |-> {}, rows |-> <<>>]

Responses ==
    {NotCalled}
    \cup [kind : {"frame"}, index_name : {"index"},
          columns : ColumnSets, rows : SeqsUpTo(RemoteRow, MaxResp)]
    \cup [kind : {"frame"}, index_name : {"trade_date", "kaipan"},
          columns : ColumnSets, rows : SeqsUpTo(RemoteRow, 1)]

----------------------------------------------------------------------------
(* main(): one script run, step by step *)

NoNotice == [kind |-> "none", text |-> <<>>]

NoSynth == [c \in Codes |-> <<>>]

\* the price columns of a frame
Prices(df) == <<df.high, df.low, df.close>>

\* process start: the guarded import sets AK_AVAILABLE, the interpreter draws its hash key
Init ==
    /\ pc = "ready"
    /\ AK_AVAILABLE \in BOOLEAN
    /\ hash_salt \in Salts
    /\ today = 0
    /\ stock_code = <<>>
    /\ price_df = EmptyFrame
    /\ source = "none"
    /\ rsv_local = <<>>
    /\ signals = <<>>
    /\ notice = NoNotice
    /\ first_synth = NoSynth

\* lines 163-166: an empty text input ends the run with a warning
EmptyInput ==
    /\ pc = "ready"
    /\ stock_code' = <<>>
    /\ notice' = [kind |-> "warning", text |-> <<"enter a stock code">>]
    /\ pc' = "returned"
    /\ UNCHANGED <<AK_AVAILABLE, hash_salt, today, price_df, source, rsv_local,
                   signals, first_synth>>

\* lines 168-170: the button is pressed and fetch_price_data(stock_code) runs;
\* resp is what ak.stock_zh_a_daily answers when it is called
Fetch(code, resp) ==
    /\ pc = "ready"
    /\ AK_AVAILABLE \/ resp = NotCalled
    /\ stock_code' = code
    /\ LET r == fetch_price_data(code, Days, AK_AVAILABLE, resp, hash_salt, today)
       IN /\ pc' = IF r.raised THEN "fetch_error" ELSE "fetched"
          /\ price_df' = r.df
          /\ source' = r.source
          /\ first_synth' =
                IF r.source = "synthetic" /\ first_synth[code] = <<>>
                THEN [first_synth EXCEPT ![code] = <<Prices(r.df)>>]
                ELSE first_synth
    /\ rsv_local' = <<>>
    /\ signals' = <<>>
    /\ notice' = NoNotice
    /\ UNCHANGED <<AK_AVAILABLE, hash_salt, today>>

\* line 171
Compute ==
    /\ pc = "fetched"
    /\ LET run == compute_locals(price_df)
       IN /\ price_df' = run.df
          /\ rsv_local' = run.rsv
    /\ pc' = "computed"
    /\ UNCHANGED <<AK_AVAILABLE, hash_salt, today, stock_code, source, signals,
                   notice, first_synth>>

\* lines 201-216; iloc[-1] of a frame without rows raises IndexError
DeriveSignals ==
    /\ pc = "computed"
    /\ IF Len0(price_df) = 0
       THEN /\ pc' = "crashed"
            /\ UNCHANGED <<signals, notice>>
       ELSE /\ signals' = build_signals(iloc_last(price_df))
            /\ notice' = show_signals(signals')
            /\ pc' = "done"
    /\ UNCHANGED <<AK_AVAILABLE, hash_salt, today, stock_code, price_df, source,
                   rsv_local, first_synth>>

\* Streamlit runs the script again on the next interaction: main() starts
\* over with fresh locals in the same interpreter
Rerun ==
    /\ pc \in {"returned", "done", "crashed", "fetch_error"}
    /\ pc' = "ready"
    /\ stock_code' = <<>>
    /\ price_df' = EmptyFrame
    /\ source' = "none"
    /\ rsv_local' = <<>>
    /\ signals' = <<>>
    /\ notice' = NoNotice
    /\ UNCHANGED <<AK_AVAILABLE, hash_salt, today, first_synth>>

\* the host's calendar moves on
Tick ==
    /\ today < MaxDay
    /\ today' = today + 1
    /\ UNCHANGED <<pc, AK_AVAILABLE, hash_salt, stock_code, price_df, source,
                   rsv_local, signals, notice, first_synth>>

\* the program is started again: a new interpreter, a new import, a new hash key
Restart ==
    /\ pc' = "ready"
    /\ AK_AVAILABLE' \in BOOLEAN
    /\ hash_salt' \in Salts
    /\ stock_code' = <<>>
    /\ price_df' = EmptyFrame
    /\ source' = "none"
    /\ rsv_local' = <<>>
    /\ signals' = <<>>
    /\ notice' = NoNotice
    /\ UNCHANGED <<today, first_synth>>

Next ==
    \/ EmptyInput
    \/ \E code \in Codes, resp \in Responses : Fetch(code, resp)
    \/ Compute
    \/ DeriveSignals
    \/ Rerun
    \/ Tick
    \/ Restart

Spec == Init /\ [][Next]_vars

----------------------------------------------------------------------------
(* compute_macd_kdj on its own: the frame is drawn from a bounded family   *)
(* of price series instead of being fetched.  A series is an optional      *)
(* first row with high > low, a row repeated up to MaxMid times and an     *)
(* optional last row; the close is 2 everywhere but in the last row, so    *)
(* that the exact exponential averages stay within 32-bit integers.        *)

MaxMid == 9

Levels == {1, 2, 3}

BodyRows == [high : Levels, low : Levels, close : {2}]

LastRows == [high : Levels, low : Levels, close : {0, 1, 2, 3, 4}]

Optional(S) == {<<>>} \cup {<<x>> : x \in S}

Repeats(S, k) == {[i \in 1..m |-> x] : m \in 0..k, x \in S}

FirstRows == {r \in BodyRows : r.high > r.low}

EngineInputs ==
    {h \o m \o t : h \in Optional(FirstRows), m \in Repeats(BodyRows, MaxMid),
                   t \in Optional(LastRows)} \ {<<>>}

InputFrame(rows) ==
    Frame([i \in 1..Len(rows) |-> i],
          [i \in 1..Len(rows) |-> Num(rows[i].high)],
          [i \in 1..Len(rows) |-> Num(rows[i].low)],
          [i \in 1..Len(rows) |-> Num(rows[i].close)])

InitEngine ==
    /\ pc = "fetched"
    /\ AK_AVAILABLE = TRUE
    /\ hash_salt = 0
    /\ today = 0
    /\ stock_code = <<6, 0>>
    /\ price_df \in {InputFrame(rows) : rows \in EngineInputs}
    /\ source = "remote"
    /\ rsv_local = <<>>
    /\ signals = <<>>
    /\ notice = NoNotice
    /\ first_synth = NoSynth

SpecEngine == InitEngine /\ [][Compute]_vars

----------------------------------------------------------------------------
(* the signal block on its own: the last row is drawn from a bounded set   *)

Tenths == {-5, 0, 5, 8, 12}

JValues == {NaN, NegInf, PosInf, Num(15), Num(20), Num(50), Num(80), Num(85)}

IndicatorRow(f, e, m, j) ==
    [date |-> <<1>>, high |-> <<Num(2)>>, low |-> <<Num(2)>>, close |-> <<Num(2)>>,
     DIF |-> <<Rat(f, 10)>>, DEA |-> <<Rat(e, 10)>>, MACD |-> <<Rat(m, 10)>>,
     K |-> <<j>>, D |-> <<j>>, J |-> <<j>>]

InitSignal ==
    /\ pc = "computed"
    /\ AK_AVAILABLE = TRUE
    /\ hash_salt = 0
    /\ today = 0
    /\ stock_code = <<6, 0>>
    /\ price_df \in {IndicatorRow(f, e, m, j) :
                        f \in Tenths, e \in Tenths, m \in Tenths, j \in JValues}
    /\ source = "remote"
    /\ rsv_local = <<NaN>>
    /\ signals = <<>>
    /\ notice = NoNotice
    /\ first_synth = NoSynth

SpecSignal == InitSignal /\ [][DeriveSignals]_vars

----------------------------------------------------------------------------
(* Properties.  The stochastic window is restated here from the prose of   *)
(* the specification, on the input columns of the frame.                   *)

N == Len0(price_df)

Computed == pc = "computed"

Window(i) == (i - n + 1)..i

WinHigh(i) ==
    CHOOSE v \in {price_df.high[j] : j \in Window(i)} :
        \A j \in Window(i) : ~Lt(v, price_df.high[j])

WinLow(i) ==
    CHOOSE v \in {price_df.low[j] : j \in Window(i)} :
        \A j \in Window(i) : ~Lt(price_df.low[j], v)

FlatAt(i) == WinHigh(i) = WinLow(i)

StatedRsv(i) ==
    Mul(Div(Sub(price_df.close[i], WinLow(i)), Sub(WinHigh(i), WinLow(i))), Num(100))

FromFifty(x) == Add(Mul(Rat(2, 3), Num(50)), Mul(Rat(1, 3), x))

InRange(x) == Le(Num(0), x) /\ Le(x, Num(100))

WellFormedRows ==
    \A i \in 1..N : /\ Le(price_df.low[i], price_df.close[i])
                    /\ Le(price_df.close[i], price_df.high[i])

Has(list, x) == \E i \in DOMAIN list : list[i] = x

\* C1: after a flat 9-row window at row i and a non-flat one at row i+1,
\* K[i] is missing and K[i+1], D[i+1] are smoothed from K_prev = D_prev = 50.
C1_ReseedAfterFlatWindow ==
    Computed =>
        \A i \in n..(N - 1) :
            (FlatAt(i) /\ ~FlatAt(i + 1)) =>
                /\ isnan(price_df.K[i])
                /\ price_df.K[i + 1] = FromFifty(StatedRsv(i + 1))
                /\ price_df.D[i + 1] = FromFifty(price_df.K[i + 1])

\* C2: at every row whose 9-row window is flat, RSV, K, D and J are the
\* missing-value marker, whatever the close of that row is.
C2_FlatWindowIsMissing ==
    Computed =>
        \A i \in n..N :
            FlatAt(i) =>
                /\ isnan(rsv_local[i])
                /\ isnan(price_df.K[i])
                /\ isnan(price_df.D[i])
                /\ isnan(price_df.J[i])

\* C3: every synthetic fallback for a ticker returns the prices that the
\* first synthetic fallback for that ticker returned.
C3_SameTickerSameSynthetic ==
    (pc = "fetched" /\ source = "synthetic") =>
        first_synth[stock_code] = <<Prices(price_df)>>

\* C4: a series of fewer than 9 rows has every RSV, K, D and J missing and
\* every DIF, DEA and MACD defined.
C4_ShortSeries ==
    (Computed /\ N < n) =>
        \A i \in 1..N :
            /\ isnan(rsv_local[i])
            /\ isnan(price_df.K[i])
            /\ isnan(price_df.D[i])
            /\ isnan(price_df.J[i])
            /\ IsFinite(price_df.DIF[i])
            /\ IsFinite(price_df.DEA[i])
            /\ IsFinite(price_df.MACD[i])

C4_Witness ==
    /\ Computed
    /\ N = n - 1
    /\ price_df.high[N] # price_df.low[N]
    /\ price_df.DIF[N] # Num(0)

\* C5: DIF, DEA and MACD have the length of the input, row for row, and
\* every entry is defined.
C5_MacdDefined ==
    Computed =>
        /\ Len(price_df.date) = N
        /\ Len(price_df.DIF) = N
        /\ Len(price_df.DEA) = N
        /\ Len(price_df.MACD) = N
        /\ \A i \in 1..N :
              /\ IsFinite(price_df.DIF[i])
              /\ IsFinite(price_df.DEA[i])
              /\ IsFinite(price_df.MACD[i])

C5_Witness ==
    /\ Computed
    /\ N > n
    /\ price_df.MACD[N] # Num(0)
    /\ price_df.MACD[1] = Num(0)

\* C6: on the last row, each of the four signals is emitted exactly under
\* its condition, "no clear signal" is shown exactly when none is, and the
\* row DIF=1.2, DEA=0.8, MACD=0.5, J=15 gives bullish momentum and oversold.
C6_SignalDerivation ==
    pc = "done" =>
        LET row == iloc_last(price_df)
            bull == Gt(row.DIF, row.DEA) /\ Gt(row.MACD, Num(0))
            bear == Lt(row.DIF, row.DEA) /\ Lt(row.MACD, Num(0))
            sold == Lt(row.J, Num(20))
            bought == Gt(row.J, Num(80))
        IN /\ Has(signals, BULLISH) <=> bull
           /\ Has(signals, BEARISH) <=> bear
           /\ Has(signals, OVERSOLD) <=> sold
           /\ Has(signals, OVERBOUGHT) <=> bought
           /\ (notice = [kind |-> "info", text |-> <<NO_SIGNAL>>])
                 <=> ~(bull \/ bear \/ sold \/ bought)
           /\ notice.kind = "success" <=> (bull \/ bear \/ sold \/ bought)
           /\ notice.kind = "success" => notice.text = signals
           /\ isnan(row.J) => ~Has(signals, OVERSOLD) /\ ~Has(signals, OVERBOUGHT)
           /\ (row.DIF = Rat(12, 10) /\ row.DEA = Rat(8, 10)
                 /\ row.MACD = Rat(5, 10) /\ row.J = Num(15))
                 => {signals[i] : i \in DOMAIN signals} = {BULLISH, OVERSOLD}

C6_Witness ==
    /\ pc = "done"
    /\ iloc_last(price_df).DIF = Rat(12, 10)
    /\ iloc_last(price_df).DEA = Rat(8, 10)
    /\ iloc_last(price_df).MACD = Rat(5, 10)
    /\ iloc_last(price_df).J = Num(15)
    /\ signals = <<BULLISH, OVERSOLD>>

\* C7: fetch_price_data never raises: whatever the remote source does, the
\* run goes on with a frame of date/high/low/close columns of one length.
C7_FetchAbsorbed ==
    /\ pc # "fetch_error"
    /\ pc \in {"fetched", "computed", "done", "crashed"} =>
          /\ source \in {"remote", "synthetic"}
          /\ Len(price_df.date) = N
          /\ Len(price_df.high) = N
          /\ Len(price_df.low) = N
          /\ ~AK_AVAILABLE => source = "synthetic"

C7_Witness ==
    /\ pc = "computed"
    /\ AK_AVAILABLE
    /\ source = "synthetic"
    /\ N = Days

\* C8: where K is defined, D is defined and J = 3K - 2D; where K is
\* missing, J is missing.
C8_JDerivation ==
    Computed =>
        \A i \in 1..N :
            /\ ~isnan(price_df.K[i]) =>
                  /\ ~isnan(price_df.D[i])
                  /\ ~isnan(price_df.J[i])
                  /\ price_df.J[i] = Sub(Mul(Num(3), price_df.K[i]),
                                         Mul(Num(2), price_df.D[i]))
            /\ isnan(price_df.K[i]) => isnan(price_df.J[i])

\* C9: DIF[0] = DEA[0] = MACD[0] = 0 for every series of at least one row,
\* whatever close[0] is.
C9_MacdSeed ==
    (pc \in {"computed", "done"} /\ N >= 1) =>
        /\ price_df.DIF[1] = Num(0)
        /\ price_df.DEA[1] = Num(0)
        /\ price_df.MACD[1] = Num(0)

C9_Witness ==
    /\ Computed
    /\ N >= 2
    /\ price_df.close[1] # Num(2)
    /\ price_df.DIF[2] # Num(0)
    /\ price_df.DIF[1] = Num(0)

\* C10: when low <= close <= high in every row, every defined RSV, K and D
\* lies in [0, 100].
C10_KdRange ==
    (Computed /\ WellFormedRows) =>
        \A i \in 1..N :
            /\ ~isnan(rsv_local[i]) => InRange(rsv_local[i])
            /\ ~isnan(price_df.K[i]) => InRange(price_df.K[i])
            /\ ~isnan(price_df.D[i]) => InRange(price_df.D[i])

\* a defined K, then a flat window with a missing K, then a reseed from 50/50
C10_Witness ==
    /\ Computed
    /\ WellFormedRows
    /\ N = n + 2
    /\ ~isnan(price_df.K[n])
    /\ isnan(price_df.K[n + 1])
    /\ price_df.K[n + 2] = FromFifty(Num(0))
    /\ price_df.D[n + 2] = FromFifty(price_df.K[n + 2])

====
